---------------------------- MODULE Spec2Model ----------------------------
(***************************************************************************)
(* Model of curvesim/network/web3.py: the rate-limited explorer query      *)
(* (explorer), the ABI fetch (ABI), the contract binding (contract), the   *)
(* resolution of one lending token to its underlying coin                  *)
(* (_underlying_coin_address) and the batch entry point                     *)
(* (underlying_coin_addresses).                                            *)
(*                                                                         *)
(* Strings are sequences of tokens, so that str.startswith is a real       *)
(* prefix test and the truth value of a string is its being non-empty.     *)
(* Durations are integers counting hundredths of a second; a duration c    *)
(* stands for the double nearest to c/100, which is what round(x, 2)       *)
(* returns.                                                                *)
(*                                                                         *)
(* The module also models bonding_curve of curvesim/tools/bonding_curve.py *)
(* as far as the shape of its result goes: the pairs it computes a curve   *)
(* for, the number of points of each curve, and the exception it raises.   *)
(***************************************************************************)
EXTENDS Integers, Sequences, FiniteSets, TLC

VARIABLES
    call,         \* the entry point invoked and its argument
    frames,       \* one coroutine frame per resolution (or per explorer call)
    tasks,        \* the list `tasks` of underlying_coin_addresses (line 154)
    finished,     \* frame indices in the order the frames terminated
    outcome,      \* what the entry point delivered to its caller
    rateLimited,  \* number of rate-limit answers the explorer gave so far
    env,          \* os.environ after load_dotenv(), as far as it is read
    bc            \* the call of bonding_curve and what it delivered

vars == <<call, frames, tasks, finished, outcome, rateLimited, env, bc>>

---------------------------------------------------------------------------
(* Bounds of the model.                                                    *)

\* longest collection passed to underlying_coin_addresses
MaxBatch == 2

\* rate-limit answers the explorer gives during one batch resolution
MaxRateLimited == 1

\* rate-limit answers the explorer gives to one direct explorer() call
MaxBackoff == 7

\* most coins of a pool passed to bonding_curve
MaxCoins == 4

\* largest resolution passed to bonding_curve
MaxResolution == 3

---------------------------------------------------------------------------
(* Strings.                                                                *)

EmptyString == <<>>

\* str.startswith(prefix)
StartsWith(s, prefix) ==
    /\ Len(s) >= Len(prefix)
    /\ SubSeq(s, 1, Len(prefix)) = prefix

\* truth value of a str: "" is falsy
Truthy(s) == Len(s) > 0

\* the literal of line 45
RateLimitMarker == <<"Max", "rate", "limit", "reached">>

\* result == "Max rate limit reached"
IsRateLimited_exact(result) == result = RateLimitMarker

\* result.startswith("Max rate limit reached")
IsRateLimited(result) == StartsWith(result, RateLimitMarker)

---------------------------------------------------------------------------
(* round(t_wait * 1.5, 2) in IEEE-754 doubles, on hundredths.              *)

RECURSIVE Pow2(_)
Pow2(k) == IF k = 0 THEN 1 ELSE 2 * Pow2(k - 1)

RECURSIVE Pow2Mod(_, _)
Pow2Mod(e, m) == IF e = 0 THEN 1 % m ELSE (2 * Pow2Mod(e - 1, m)) % m

\* least k with c * 2^k >= 100 (c < 100)
RECURSIVE ShiftUp(_, _)
ShiftUp(c, k) == IF c * Pow2(k) >= 100 THEN k ELSE ShiftUp(c, k + 1)

\* least k with c < 200 * 2^k (c >= 100)
RECURSIVE ShiftDown(_, _)
ShiftDown(c, k) == IF c < 200 * Pow2(k) THEN k ELSE ShiftDown(c, k + 1)

\* The double d nearest to c/100 is m / 2^e with 2^52 <= m < 2^53; the
\* product 1.5 * d = 3m / 2^(e+1) is rounded to 53 bits again, and round(x, 2)
\* then picks the two-decimal value nearest to that double.  When 3c is odd
\* the exact product lies halfway between two hundredths and the two binary
\* rounding errors decide the side; they are computed modulo 800.
TieSide(c) ==
    LET up    == c < 100
        k     == IF up THEN ShiftUp(c, 0) ELSE ShiftDown(c, 0)
        e     == IF up THEN 52 + k ELSE 52 - k
        big   == IF up THEN 3 * c * Pow2(k) >= 400 ELSE 3 * c >= 400 * Pow2(k)
        R     == ((c % 800) * Pow2Mod(e, 800)) % 800
        r     == R % 100
        above == r > 50
        m8    == (((R - r) \div 100) + (IF above THEN 1 ELSE 0)) % 8
        d1    == IF above THEN 100 - r ELSE 0 - r
        p8    == (3 * m8) % 8
        d2    == IF ~big
                 THEN IF p8 % 2 = 0 THEN 0
                      ELSE IF ((p8 - 1) \div 2) % 2 = 0 THEN 0 - 1 ELSE 1
                 ELSE CASE p8 % 4 = 0 -> 0
                        [] p8 % 4 = 1 -> 0 - 1
                        [] p8 % 4 = 3 -> 1
                        [] OTHER -> IF ((p8 - 2) \div 4) % 2 = 0 THEN 0 - 2 ELSE 2
    IN  3 * d1 + 100 * d2

\* t_wait = round(t_wait * 2, 2)
NextWait_doubling(c) == 2 * c

\* t_wait = round(t_wait * 1.5, 2)
NextWait(c) ==
    LET lo == (3 * c - 1) \div 2
        hi == (3 * c + 1) \div 2
    IN  IF c % 2 = 0 THEN (3 * c) \div 2
        ELSE IF c % 25 = 0 THEN (IF lo % 2 = 0 THEN lo ELSE hi)
        ELSE IF TieSide(c) > 0 THEN hi ELSE lo

\* t_wait = 0.2
InitialWait == 20

---------------------------------------------------------------------------
(* The environment: the explorer's registry of ABIs and the chain.         *)

\* the address literal of line 125
PROXY_ABI_ADDRESS == "0x1C050bCa8BAbe53Ef769d0d2e411f556e1a27E7B"

\* what os.environ.get returns for a variable that is not set
None == "None"

\* os.environ.get("ETHERSCAN_API_KEY")
ETHERSCAN_API_KEY == env.ETHERSCAN_API_KEY

\* os.environ.get("ALCHEMY_API_KEY")
ALCHEMY_API_KEY == env.ALCHEMY_API_KEY

\* the endpoint of W3: the f-string of line 82
ProviderURL == <<"https://eth-mainnet.g.alchemy.com/v2/", ALCHEMY_API_KEY>>

\* an environment with both keys set
KeysSet == [ETHERSCAN_API_KEY |-> "etherscan-key",
            ALCHEMY_API_KEY |-> "alchemy-key"]

\* the environments the process may be started in
Environments == [ETHERSCAN_API_KEY : {None, "etherscan-key"},
                 ALCHEMY_API_KEY : {None, "alchemy-key"}]

\* lending-token addresses a caller may pass
Addresses == {"0xAAA", "0xBBB", "0xEEE", "0xFFF"}

\* the ABI document the explorer holds for a lending token: a JSON list,
\* written as its function names between brackets
ChainABI(a) ==
    CASE a = "0xAAA" -> <<"[", "underlying", "token", "]">>
      [] a = "0xBBB" -> <<"[", "token", "underlying", "upgradeToAndCall",
                          "UNDERLYING_ASSET_ADDRESS", "]">>
      [] a = "0xFFF" -> <<"[", "balanceOf", "token", "]">>
      [] OTHER       -> <<"[", "balanceOf", "]">>

\* what the explorer may answer to getabi for the proxy reference address
CanonResults ==
    { <<"[", "UNDERLYING_ASSET_ADDRESS", "POOL", "]">>,
      <<"[", "]">>,
      EmptyString }

\* the explorer's rate-limit answer to a getabi request
RateLimitNotice == RateLimitMarker \o <<",", "please", "retry">>

\* what the explorer may answer to any other request
QueryResults ==
    { RateLimitMarker,
      RateLimitNotice,
      <<"Max", "rate">>,
      <<"Error", "Max", "rate", "limit", "reached">>,
      <<"1000">>,
      EmptyString }

\* the requests made through explorer() directly
QueryParams ==
    { [module |-> "account", action |-> "balance", address |-> "0xAAA"],
      [module |-> "stats", action |-> "ethsupply", address |-> ""],
      [module |-> "contract", action |-> "getabi", address |-> "0xFFF"] }

\* r["result"] of the responses HTTP.get may deliver for a request
Responses(params) ==
    IF params.action = "getabi"
    THEN {RateLimitNotice} \cup
         (IF params.address = PROXY_ABI_ADDRESS
          THEN CanonResults ELSE {ChainABI(params.address)})
    ELSE QueryResults

\* the address the accessor fn of the contract at a returns
CallValue(a, fn) ==
    CASE a = "0xAAA" /\ fn = "underlying"               -> "0xCCC"
      [] a = "0xAAA" /\ fn = "token"                    -> "0xCC2"
      [] a = "0xBBB" /\ fn = "UNDERLYING_ASSET_ADDRESS" -> "0xDDD"
      [] a = "0xBBB" /\ fn = "underlying"               -> "0xDD2"
      [] a = "0xBBB" /\ fn = "token"                    -> "0xDD3"
      [] a = "0xBBB" /\ fn = "upgradeToAndCall"         -> "0xDD4"
      [] a = "0xFFF" /\ fn = "token"                    -> "0xF11"
      [] OTHER                                          -> "0x000"

---------------------------------------------------------------------------
(* Contract handles.                                                       *)

\* abi=None
NoABI == [none |-> TRUE, text |-> EmptyString, of |-> ""]

\* the str returned by ABI(of)
FetchedABI(text, of) == [none |-> FALSE, text |-> text, of |-> of]

\* the left operand of `abi or await ABI(address)` decides
AbiSupplied(abi) == ~abi.none /\ Truthy(abi.text)

NoHandle == [address |-> "", abi |-> NoABI]

\* W3.eth.contract(address=address, abi=abi)
W3Contract(address, abi) == [address |-> address, abi |-> abi]

\* the function names web3 reads from an ABI document
FunctionNames(text) == {text[k] : k \in DOMAIN text} \ {"[", "]"}

\* dir(c.functions): the ABI's functions and the object's own attributes
DirFunctions(c) == FunctionNames(c.abi.text) \cup {"abi", "address", "web3"}

---------------------------------------------------------------------------
(* Lines 113-121: the probe of the candidate accessors.                    *)

fns_reordered == <<"upgradeToAndCall", "token", "underlying">>

fns == <<"upgradeToAndCall", "underlying", "token">>

n_fns_short == Len(fns) - 2

n_fns == Len(fns) - 1

\* the for loop from index i on; tested counts the candidates looked up.
\* A loop that runs out without break or raise leaves fn at the last one.
RECURSIVE Probe(_, _)
Probe(i, c) ==
    IF fns[i + 1] \in DirFunctions(c)
    THEN [raised |-> FALSE, fn |-> fns[i + 1], tested |-> i + 1]
    ELSE IF i = n_fns
    THEN [raised |-> TRUE, fn |-> fns[i + 1], tested |-> i + 1]
    ELSE IF i + 1 = Len(fns)
    THEN [raised |-> FALSE, fn |-> fns[i + 1], tested |-> i + 1]
    ELSE Probe(i + 1, c)

\* line 127 left out
ProxyAccessor_kept(fn) == fn

\* lines 124-127: the accessor called in the end
ProxyAccessor(fn) ==
    IF fn = "upgradeToAndCall" THEN "UNDERLYING_ASSET_ADDRESS" ELSE fn

---------------------------------------------------------------------------
(* Coroutine frames.                                                       *)

NoParams == [module |-> "", action |-> "", address |-> "", apikey |-> ""]

\* what explorer does towards the outside: HTTP.get(URL, params) and
\* sleep(t_wait)
Request(params) == [kind |-> "request", params |-> params, wait |-> 0]

Sleep(t_wait) == [kind |-> "sleep", params |-> NoParams, wait |-> t_wait]

NoQuery == [params |-> NoParams, t_wait |-> 0, slept |-> 0, resps |-> <<>>,
            events |-> <<>>]

NoError == [type |-> "", address |-> ""]

\* a coroutine object that has not run yet
NewFrame(a) ==
    [address |-> a, pc |-> "new", stage |-> "", q |-> NoQuery,
     c |-> NoHandle, probed |-> <<>>, matched |-> "", fn |-> "",
     invoked |-> <<>>, queries |-> <<>>,
     result |-> EmptyString, value |-> "", error |-> NoError]

Terminated(f) == f.pc \in {"done", "failed"}

\* raise
Raise(f, type, address) ==
    [f EXCEPT !.pc = "failed", !.q = NoQuery,
              !.error = [type |-> type, address |-> address]]

\* t_wait kept at module level: a call starts from the wait the last
\* rate-limited call was left with
explorer_sharedWait(f, params, stage) ==
    [f EXCEPT !.pc = "http", !.stage = stage,
              !.queries = Append(@, params),
              !.q = [params |-> [module |-> params.module,
                                 action |-> params.action,
                                 address |-> params.address,
                                 apikey |-> ETHERSCAN_API_KEY],
                     t_wait |-> IF rateLimited = 0 THEN InitialWait
                                ELSE NextWait(InitialWait),
                     slept |-> 0, resps |-> <<>>,
                     events |-> <<Request([module |-> params.module,
                                           action |-> params.action,
                                           address |-> params.address,
                                           apikey |-> ETHERSCAN_API_KEY])>>]]

\* lines 38-42: explorer(params) up to its first await HTTP.get
explorer(f, params, stage) ==
    [f EXCEPT !.pc = "http", !.stage = stage,
              !.queries = Append(@, params),
              !.q = [params |-> [module |-> params.module,
                                 action |-> params.action,
                                 address |-> params.address,
                                 apikey |-> ETHERSCAN_API_KEY],
                     t_wait |-> InitialWait, slept |-> 0, resps |-> <<>>,
                     events |-> <<Request([module |-> params.module,
                                           action |-> params.action,
                                           address |-> params.address,
                                           apikey |-> ETHERSCAN_API_KEY])>>]]

\* lines 68-74: ABI(address)
ABI(f, address, stage) ==
    explorer(f, [module |-> "contract", action |-> "getabi",
                 address |-> address], stage)

\* line 129: c.functions[fn]().call() up to its await
CallAccessor(f) ==
    IF f.fn \in FunctionNames(f.c.abi.text)
    THEN [f EXCEPT !.pc = "rpc", !.q = NoQuery,
                   !.invoked = Append(@, [fn |-> f.fn, address |-> f.c.address,
                                          abiOf |-> f.c.abi.of,
                                          provider |-> ProviderURL])]
    ELSE Raise(f, "ABIFunctionNotFound", "")

\* lines 113-129, c being the handle bound at line 111
ProbeAndCall(f) ==
    LET p == Probe(0, f.c)
        g == [f EXCEPT !.probed = SubSeq(fns, 1, p.tested),
                       !.matched = IF p.raised THEN "" ELSE p.fn,
                       !.fn = p.fn]
    IN  IF p.raised THEN Raise(g, "ValueError", f.address)
        ELSE IF p.fn = "upgradeToAndCall"
        THEN ABI(g, PROXY_ABI_ADDRESS, "proxy_abi")
        ELSE CallAccessor(g)

\* lines 106-107 of the call at line 126, then lines 127-129
RebindAndCall(f, abi) ==
    CallAccessor([f EXCEPT !.c = W3Contract(f.address, abi),
                           !.fn = ProxyAccessor(f.fn)])

\* line 126: contract(address, abi) with the ABI fetched at line 125
ContractWithABI(f, abi) ==
    IF AbiSupplied(abi) THEN RebindAndCall(f, abi)
    ELSE ABI(f, f.address, "rebind")

\* the code that runs when explorer returns result, up to the next await
AfterExplorer(f, result) ==
    LET abi == FetchedABI(result, f.q.params.address)
    IN  CASE f.stage = "explorer" ->
               [f EXCEPT !.pc = "done", !.result = result]
          [] f.stage = "own" ->
               ProbeAndCall([f EXCEPT !.c = W3Contract(f.address, abi)])
          [] f.stage = "proxy_abi" -> ContractWithABI(f, abi)
          [] OTHER -> RebindAndCall(f, abi)

\* a loop that resends at once after a rate-limited response
OnResponse_noSleep(f, result) ==
    LET g == [f EXCEPT !.q.resps = Append(@, result)]
    IN  IF IsRateLimited(result)
        THEN [g EXCEPT !.pc = "http", !.q.t_wait = NextWait(@),
                       !.q.events = Append(@, Request(f.q.params))]
        ELSE AfterExplorer(g, result)

\* lines 42-49: one response of HTTP.get
OnResponse(f, result) ==
    LET g == [f EXCEPT !.q.resps = Append(@, result)]
    IN  IF IsRateLimited(result)
        THEN [g EXCEPT !.pc = "sleep", !.q.slept = @ + f.q.t_wait,
                       !.q.events = Append(@, Sleep(f.q.t_wait))]
        ELSE AfterExplorer(g, result)

\* a loop that gives up after three rate-limited responses
OnWake_capped(f) ==
    IF Len(f.q.resps) >= 3 THEN Raise(f, "RateLimitExceeded", "")
    ELSE [f EXCEPT !.pc = "http", !.q.t_wait = NextWait(@),
                   !.q.events = Append(@, Request(f.q.params))]

\* lines 46-47 and 42: the sleep is over, the wait grows, the request is resent
OnWake(f) ==
    [f EXCEPT !.pc = "http", !.q.t_wait = NextWait(@),
              !.q.events = Append(@, Request(f.q.params))]

\* HTTP.get raised and the loop sleeps and tries again
OnTransportError_retry(f) == [f EXCEPT !.pc = "sleep"]

\* line 42: HTTP.get raised; nothing catches it up to the caller
OnTransportError(f) == Raise(f, "TransportError", "")

\* line 129: the accessor call raised; nothing catches it up to the caller
OnRpcError(f) == Raise(f, "RPCError", "")

---------------------------------------------------------------------------
(* The entry points and what they deliver.                                 *)

NoCall == [fn |-> "none", scalar |-> FALSE, addresses |-> <<>>]

Pending == [status |-> "pending", shape |-> "none", value |-> "",
            values |-> <<>>, error |-> NoError]

\* return addrs, addrs being one str (line 151)
ReturnScalar(v) == [status |-> "returned", shape |-> "scalar", value |-> v,
                    values |-> <<>>, error |-> NoError]

\* return addrs, addrs being the list of gather (line 158)
ReturnList(vs) == [status |-> "returned", shape |-> "list", value |-> "",
                   values |-> vs, error |-> NoError]

\* an exception leaves underlying_coin_addresses
Raised(err) == [status |-> "raised", shape |-> "none", value |-> "",
                values |-> <<>>, error |-> err]

\* the frames that failed, in the order they failed
FailedInOrder == SelectSeq(finished, LAMBDA i : frames[i].pc = "failed")

\* gather that waits until every task has a result
GatherReady_allDone == \A k \in DOMAIN tasks : frames[tasks[k]].pc = "done"

\* gather(*tasks) is over: a task raised, or every task is done
GatherReady ==
    \/ FailedInOrder # <<>>
    \/ \A k \in DOMAIN tasks : frames[tasks[k]].pc = "done"

\* gather that never raises
GatherRaises_never == FALSE

\* gather without return_exceptions raises as soon as one task has raised
GatherRaises == FailedInOrder # <<>>

\* the exception of the last task that raised
GatherError_last == frames[FailedInOrder[Len(FailedInOrder)]].error

\* the exception gather raises: the one of the first task that raised
GatherError == frames[FailedInOrder[1]].error

\* the results in the order the tasks finished
GatherResult_asCompleted ==
    [k \in DOMAIN tasks |->
        IF k \in DOMAIN finished THEN frames[finished[k]].value ELSE ""]

\* the list gather returns: the results in the order of its arguments
GatherResult == [k \in DOMAIN tasks |-> frames[tasks[k]].value]

\* addrs wrapped in a list
ScalarResult_wrapped(f) == ReturnList(<<f.value>>)

\* line 151: the value of the awaited coroutine is addrs itself
ScalarResult(f) == ReturnScalar(f.value)

\* the sequences a caller may pass
RECURSIVE SeqsUpTo(_, _)
SeqsUpTo(S, n) ==
    IF n = 0 THEN {<<>>}
    ELSE LET shorter == SeqsUpTo(S, n - 1)
         IN  shorter \cup {Append(s, x) : s \in {t \in shorter : Len(t) = n - 1},
                                        x \in S}

\* the rate-limit answers the explorer may still give
RateLimitBudget ==
    IF call.fn = "explorer" THEN MaxBackoff ELSE MaxRateLimited

---------------------------------------------------------------------------
(* bonding_curve(pool, truncate=None, resolution=1000, plot=False).        *)

\* bonding_curve.py line 15
STABLESWAP == {"CurvePool", "CurveMetaPool", "CurveRaiPool"}

\* bonding_curve.py line 16
CRYPTOSWAP == {"CurveCryptoPool"}

\* the classes of curvesim.pool imported at line 12, each with the classes it
\* derives from: CurveRaiPool is a CurveMetaPool
Bases(class) ==
    IF class = "CurveRaiPool" THEN {"CurveRaiPool", "CurveMetaPool"}
    ELSE {class}

\* isinstance(pool, classes)
IsInstance(pool, classes) == Bases(pool.class) \cap classes # {}

\* getattr succeeds
HasAttr(pool, name) == name \in pool.attrs

\* the objects a caller may pass: pools of the four classes, and objects of
\* another class that have the attributes n and _xp or lack them
Pools ==
    {[class |-> c, n |-> n, attrs |-> {"n", "_xp"}] :
        c \in STABLESWAP \cup CRYPTOSWAP, n \in 2..MaxCoins}
    \cup {[class |-> "object", n |-> n, attrs |-> a] :
            n \in 2..MaxCoins, a \in {{"n"}, {"n", "_xp"}}}
    \cup {[class |-> "object", n |-> 0, attrs |-> a] : a \in {{}, {"_xp"}}}

\* itertools.combinations(range(n), 2) from the pair (i, j) on
RECURSIVE CombinationsFrom(_, _, _)
CombinationsFrom(i, j, n) ==
    IF i >= n - 1 THEN <<>>
    ELSE IF j >= n THEN CombinationsFrom(i + 1, i + 2, n)
    ELSE <<<<i, j>>>> \o CombinationsFrom(i, j + 1, n)

\* lines 54-57
Combos(pool) ==
    IF IsInstance(pool, {"CurveMetaPool"}) THEN <<<<0, 1>>>>
    ELSE CombinationsFrom(0, 1, pool.n)

\* lines 89-105: linspace(truncated_D, x_limit, resolution) has resolution
\* values, and the loop appends one (x, y) per value; a point is named by the
\* position of its x
Curve(resolution) == [k \in 1..resolution |-> [x |-> k, y |-> k]]

\* lines 84-107: pair_to_curve after the loop over combos
PairToCurve(combos, resolution) ==
    [pair \in {combos[k] : k \in DOMAIN combos} |-> Curve(resolution)]

NoCurves == [pair \in {} |-> <<>>]

NoCurveCall == [status |-> "none", pool |-> [class |-> "", n |-> 0, attrs |-> {}],
                resolution |-> 0, plot |-> FALSE, curves |-> NoCurves,
                error |-> ""]

\* lines 131-139: plt.subplots(1, n) needs n > 0, and xs, ys = zip(*curve)
\* needs a curve that is not empty
PlotRaises(pair_to_curve) ==
    \/ DOMAIN pair_to_curve = {}
    \/ \E pair \in DOMAIN pair_to_curve : pair_to_curve[pair] = <<>>

\* lines 54-128: the exception bonding_curve raises, or "" when it returns
CurveError(pool, resolution, plot) ==
    IF ~IsInstance(pool, {"CurveMetaPool"}) /\ ~HasAttr(pool, "n")
    THEN "AttributeError"
    ELSE IF ~HasAttr(pool, "_xp") THEN "AttributeError"
    ELSE IF ~IsInstance(pool, STABLESWAP) /\ ~IsInstance(pool, CRYPTOSWAP)
    THEN "TypeError"
    ELSE IF plot /\ PlotRaises(PairToCurve(Combos(pool), resolution))
    THEN "ValueError"
    ELSE ""

---------------------------------------------------------------------------
(* Actions.                                                                *)

Init ==
    /\ call = NoCall
    /\ frames = <<>>
    /\ tasks = <<>>
    /\ finished = <<>>
    /\ outcome = Pending
    /\ rateLimited = 0
    /\ env = KeysSet
    /\ bc = NoCurveCall

\* the module is loaded in any environment: lines 15-18 raise nothing
InitConfig ==
    /\ call = NoCall
    /\ frames = <<>>
    /\ tasks = <<>>
    /\ finished = <<>>
    /\ outcome = Pending
    /\ rateLimited = 0
    /\ env \in Environments
    /\ bc = NoCurveCall

\* a frame reaches its next await, or terminates
Step(i, f) ==
    /\ frames' = [frames EXCEPT ![i] = f]
    /\ finished' = IF Terminated(f) THEN Append(finished, i) ELSE finished

\* explorer(params) is called directly
CallExplorer(params) ==
    /\ call.fn = "none"
    /\ call' = [fn |-> "explorer", scalar |-> TRUE, addresses |-> <<>>]
    /\ frames' = <<explorer(NewFrame(""), params, "explorer")>>
    /\ UNCHANGED <<bc, env, tasks, finished, outcome, rateLimited>>

\* underlying_coin_addresses(a) with a str: lines 150-151 up to the first
\* await of the coroutine it awaits
CallScalar(a) ==
    /\ call.fn = "none"
    /\ call' = [fn |-> "underlying_coin_addresses", scalar |-> TRUE,
                addresses |-> <<a>>]
    /\ frames' = <<ABI(NewFrame(a), a, "own")>>
    /\ UNCHANGED <<bc, env, tasks, finished, outcome, rateLimited>>

\* underlying_coin_addresses(as) with a collection: lines 153-158 up to the
\* await of gather
CallCollection(as) ==
    /\ call.fn = "none"
    /\ call' = [fn |-> "underlying_coin_addresses", scalar |-> FALSE,
                addresses |-> as]
    /\ frames' = [k \in DOMAIN as |-> NewFrame(as[k])]
    /\ tasks' = [k \in DOMAIN as |-> k]
    /\ UNCHANGED <<bc, env, finished, outcome, rateLimited>>

\* the event loop runs a task of gather for the first time: line 111
Start(i) ==
    /\ frames[i].pc = "new"
    /\ Step(i, ABI(frames[i], frames[i].address, "own"))
    /\ UNCHANGED <<bc, env, call, tasks, outcome, rateLimited>>

\* HTTP.get returns a response
Respond(i, result) ==
    /\ frames[i].pc = "http"
    /\ result \in Responses(frames[i].q.params)
    /\ IsRateLimited(result) => rateLimited < RateLimitBudget
    /\ rateLimited' = IF IsRateLimited(result) THEN rateLimited + 1
                      ELSE rateLimited
    /\ Step(i, OnResponse(frames[i], result))
    /\ UNCHANGED <<bc, env, call, tasks, outcome>>

\* sleep(t_wait) returns
Wake(i) ==
    /\ frames[i].pc = "sleep"
    /\ Step(i, OnWake(frames[i]))
    /\ UNCHANGED <<bc, env, call, tasks, outcome, rateLimited>>

\* HTTP.get raises
TransportFail(i) ==
    /\ frames[i].pc = "http"
    /\ Step(i, OnTransportError(frames[i]))
    /\ UNCHANGED <<bc, env, call, tasks, outcome, rateLimited>>

\* line 129-131: the call of the accessor returns
RpcReturn(i) ==
    /\ frames[i].pc = "rpc"
    /\ Step(i, [frames[i] EXCEPT !.pc = "done",
                    !.value = CallValue(frames[i].c.address, frames[i].fn)])
    /\ UNCHANGED <<bc, env, call, tasks, outcome, rateLimited>>

\* line 129: the call of the accessor raises
RpcFail(i) ==
    /\ frames[i].pc = "rpc"
    /\ Step(i, OnRpcError(frames[i]))
    /\ UNCHANGED <<bc, env, call, tasks, outcome, rateLimited>>

\* lines 151 and 160: the awaited coroutine is over
ScalarReturn ==
    /\ call.fn = "underlying_coin_addresses" /\ call.scalar
    /\ outcome.status = "pending"
    /\ Terminated(frames[1])
    /\ outcome' = IF frames[1].pc = "failed" THEN Raised(frames[1].error)
                  ELSE ScalarResult(frames[1])
    /\ UNCHANGED <<bc, env, call, frames, tasks, finished, rateLimited>>

\* gather that cancels the tasks still running when one has raised
Join_cancelling ==
    /\ call.fn = "underlying_coin_addresses" /\ ~call.scalar
    /\ outcome.status = "pending"
    /\ GatherReady
    /\ outcome' = IF GatherRaises THEN Raised(GatherError)
                  ELSE ReturnList(GatherResult)
    /\ frames' = [i \in DOMAIN frames |->
                     IF Terminated(frames[i]) THEN frames[i]
                     ELSE Raise(frames[i], "CancelledError", "")]
    /\ UNCHANGED <<bc, env, call, tasks, finished, rateLimited>>

\* lines 158 and 160: gather is over
Join ==
    /\ call.fn = "underlying_coin_addresses" /\ ~call.scalar
    /\ outcome.status = "pending"
    /\ GatherReady
    /\ outcome' = IF GatherRaises THEN Raised(GatherError)
                  ELSE ReturnList(GatherResult)
    /\ UNCHANGED <<bc, env, call, frames, tasks, finished, rateLimited>>

Next ==
    \/ \E a \in Addresses : CallScalar(a)
    \/ \E as \in SeqsUpTo(Addresses, MaxBatch) : CallCollection(as)
    \/ \E i \in DOMAIN frames : Start(i)
    \/ \E i \in DOMAIN frames : \E r \in Responses(frames[i].q.params) :
           Respond(i, r)
    \/ \E i \in DOMAIN frames : Wake(i)
    \/ \E i \in DOMAIN frames : TransportFail(i)
    \/ \E i \in DOMAIN frames : RpcReturn(i)
    \/ \E i \in DOMAIN frames : RpcFail(i)
    \/ ScalarReturn
    \/ Join

Spec == Init /\ [][Next]_vars

\* what frame i is waiting for arrives: the response or the failure of its
\* HTTP request, the end of its sleep, the result or the failure of its call
Progress(i) ==
    /\ i \in DOMAIN frames
    /\ \/ Start(i)
       \/ \E r \in Responses(frames[i].q.params) : Respond(i, r)
       \/ Wake(i)
       \/ TransportFail(i)
       \/ RpcReturn(i)
       \/ RpcFail(i)

\* the event loop runs every task that can run, every backend answers, and
\* the awaiting caller is resumed
Fairness ==
    /\ \A i \in 1..MaxBatch : WF_vars(Progress(i))
    /\ WF_vars(ScalarReturn)
    /\ WF_vars(Join)

\* a contract behind a proxy and a contract without any accessor
FairAddresses == {"0xBBB", "0xEEE"}

NextFair ==
    \/ \E a \in FairAddresses : CallScalar(a)
    \/ \E as \in SeqsUpTo(FairAddresses, MaxBatch) : CallCollection(as)
    \/ \E i \in DOMAIN frames : Progress(i)
    \/ ScalarReturn
    \/ Join

FairSpec == Init /\ [][NextFair]_vars /\ Fairness

\* one direct call of explorer()
NextQuery ==
    \/ \E p \in QueryParams : CallExplorer(p)
    \/ \E i \in DOMAIN frames : \E r \in Responses(frames[i].q.params) :
           Respond(i, r)
    \/ \E i \in DOMAIN frames : Wake(i)
    \/ \E i \in DOMAIN frames : TransportFail(i)

SpecQuery == Init /\ [][NextQuery]_vars

\* the resolver started in any environment
SpecConfig == InitConfig /\ [][Next]_vars

\* bonding_curve(pool, resolution=resolution, plot=plot) from call to return
BondingCurve(pool, resolution, plot) ==
    /\ bc.status = "none"
    /\ bc' = LET err == CurveError(pool, resolution, plot)
             IN  [status |-> IF err = "" THEN "returned" ELSE "raised",
                  pool |-> pool, resolution |-> resolution, plot |-> plot,
                  curves |-> IF err = ""
                             THEN PairToCurve(Combos(pool), resolution)
                             ELSE NoCurves,
                  error |-> err]
    /\ UNCHANGED <<env, call, frames, tasks, finished, outcome, rateLimited>>

NextCurve ==
    \E pool \in Pools, resolution \in 0..MaxResolution, plot \in BOOLEAN :
        BondingCurve(pool, resolution, plot)

\* one call of bonding_curve
SpecCurve == Init /\ [][NextCurve]_vars

---------------------------------------------------------------------------
(* Properties.                                                             *)

IsBatchCall == call.fn = "underlying_coin_addresses" /\ ~call.scalar

IsScalarCall == call.fn = "underlying_coin_addresses" /\ call.scalar

\* the capability set of the contract at a
Capabilities(a) == FunctionNames(ChainABI(a))

\* what resolving a alone yields when it succeeds
ResolveUnderlying(a) ==
    CallValue(a, IF "upgradeToAndCall" \in Capabilities(a)
                 THEN "UNDERLYING_ASSET_ADDRESS"
                 ELSE IF "underlying" \in Capabilities(a) THEN "underlying"
                 ELSE "token")

\* C1: a collection call that returns, returns a list as long as its input
\* whose element at each position is the underlying coin of the address at
\* that position, in whatever order the tasks finished.
C1_OrderPreserved ==
    (IsBatchCall /\ outcome.status = "returned") =>
        /\ outcome.shape = "list"
        /\ Len(outcome.values) = Len(call.addresses)
        /\ \A k \in DOMAIN call.addresses :
               outcome.values[k] = ResolveUnderlying(call.addresses[k])

\* two different coins were returned, the second task having finished first
C1_Witness ==
    /\ IsBatchCall /\ outcome.status = "returned"
    /\ Len(outcome.values) = 2
    /\ outcome.values[1] # outcome.values[2]
    /\ finished = <<2, 1>>

\* C2: once a task of a collection call has failed the call never returns
\* a list, and a call that raised carries no values.
C2_AllOrNothing ==
    IsBatchCall =>
        /\ (\E i \in DOMAIN frames : frames[i].pc = "failed")
               => outcome.status # "returned"
        /\ outcome.status = "raised"
               => /\ outcome.shape = "none" /\ outcome.values = <<>>
                  /\ \E i \in DOMAIN frames : frames[i].pc = "failed"

\* the call raised although a task had succeeded before the other one failed
C2_Witness ==
    /\ IsBatchCall /\ outcome.status = "raised"
    /\ \E i, j \in DOMAIN frames :
           /\ finished = <<i, j>>
           /\ frames[i].pc = "done" /\ frames[i].value # ""
           /\ frames[j].pc = "failed"

\* C3: the probe selects "upgradeToAndCall" if the contract has it, else
\* "underlying" if it has it, else "token", and looks up no candidate after
\* the one it selects.
C3_CandidatePriority ==
    \A i \in DOMAIN frames :
        LET f == frames[i]
            S == Capabilities(f.address)
        IN  (f.probed # <<>> /\ f.error.type # "ValueError") =>
                IF "upgradeToAndCall" \in S
                THEN f.matched = "upgradeToAndCall"
                     /\ f.probed = <<"upgradeToAndCall">>
                ELSE IF "underlying" \in S
                THEN f.matched = "underlying"
                     /\ f.probed = <<"upgradeToAndCall", "underlying">>
                ELSE f.matched = "token" /\ "token" \in S
                     /\ f.probed = <<"upgradeToAndCall", "underlying", "token">>

\* a contract with underlying and token, and one with all three candidates
C3_Witness ==
    \E i, j \in DOMAIN frames :
        /\ frames[i].address = "0xAAA" /\ frames[i].matched = "underlying"
        /\ frames[j].address = "0xBBB"
        /\ frames[j].matched = "upgradeToAndCall"

\* C4: when "upgradeToAndCall" is the matched candidate, every accessor
\* call is "UNDERLYING_ASSET_ADDRESS" on a handle for the same address bound
\* to the ABI fetched from the proxy reference address, never on a handle
\* bound to the contract's own ABI.
C4_ProxyCallsCanonicalHandle ==
    \A i \in DOMAIN frames :
        frames[i].matched = "upgradeToAndCall" =>
            \A k \in DOMAIN frames[i].invoked :
                /\ frames[i].invoked[k].fn = "UNDERLYING_ASSET_ADDRESS"
                /\ frames[i].invoked[k].address = frames[i].address
                /\ frames[i].invoked[k].abiOf = PROXY_ABI_ADDRESS

\* result begins with the words "Max rate limit reached"
BeginsWithMarker(r) ==
    /\ Len(r) >= 4
    /\ r[1] = "Max" /\ r[2] = "rate" /\ r[3] = "limit" /\ r[4] = "reached"

\* C5: explorer returns the result of the first response that does not begin
\* with the rate-limit marker; every response before it began with the
\* marker, and a rate-limited response never ends the call, neither as its
\* value nor as an error.
C5_NeverReturnsRateLimited ==
    \A i \in DOMAIN frames :
        LET f == frames[i]
            n == Len(f.q.resps)
        IN  f.stage = "explorer" =>
                /\ f.pc = "done" =>
                       /\ n >= 1
                       /\ f.result = f.q.resps[n]
                       /\ ~BeginsWithMarker(f.result)
                       /\ \A k \in 1..(n - 1) : BeginsWithMarker(f.q.resps[k])
                /\ f.pc = "failed" => f.error.type = "TransportError"
                /\ f.pc \in {"http", "sleep"} =>
                       \A k \in 1..n : BeginsWithMarker(f.q.resps[k])

\* two rate-limited responses, then a result that only resembles the marker
C5_Witness ==
    \E i \in DOMAIN frames :
        /\ frames[i].stage = "explorer" /\ frames[i].pc = "done"
        /\ Len(frames[i].q.resps) = 3
        /\ frames[i].q.resps[1] # frames[i].q.resps[2]
        /\ frames[i].result = <<"Max", "rate">>

RECURSIVE Pow3(_)
Pow3(n) == IF n = 0 THEN 1 ELSE 3 * Pow3(n - 1)

\* round(0.2 * 1.5^n, 2) in hundredths: 20 * 3^n / 2^n to the nearest
IndependentTerm(n) == (2 * 20 * Pow3(n) + Pow2(n)) \div Pow2(n + 1)

RECURSIVE IndependentSum(_)
IndependentSum(k) ==
    IF k = 0 THEN 0 ELSE IndependentSum(k - 1) + IndependentTerm(k - 1)

\* C6 as stated: after k rate-limit responses and a success the sleeps add
\* up to the sum over n < k of round(0.2 * 1.5^n, 2).
C6_IndependentRounding ==
    \A i \in DOMAIN frames :
        (frames[i].stage = "explorer" /\ frames[i].pc = "done") =>
            frames[i].q.slept = IndependentSum(Len(frames[i].q.resps) - 1)

\* 0.2, then each wait 1.5 times the wait before it, rounded to 2 decimals
CompoundedWaits == <<20, 30, 45, 68, 102, 153, 229, 344>>

RECURSIVE CompoundedSum(_)
CompoundedSum(k) ==
    IF k = 0 THEN 0 ELSE CompoundedSum(k - 1) + CompoundedWaits[k]

\* C6 amended: after k <= 8 rate-limit responses and a success the sleeps add
\* up to the first k of 0.2, 0.3, 0.45, 0.68, 1.02, 1.53, 2.29, 3.44, each
\* wait being round(1.5 * the wait before it, 2); the value returned is the
\* response that came after the rate-limited ones.
C6_CompoundedRounding ==
    \A i \in DOMAIN frames :
        LET f == frames[i]
            k == Len(f.q.resps) - 1
        IN  (f.stage = "explorer" /\ f.pc = "done" /\ k <= 8) =>
                /\ f.q.slept = CompoundedSum(k)
                /\ f.result = f.q.resps[k + 1]
                /\ \A n \in 1..k : BeginsWithMarker(f.q.resps[n])

\* five rate-limit responses, then a result: 2.65 s slept
C6_Witness ==
    \E i \in DOMAIN frames :
        /\ frames[i].stage = "explorer" /\ frames[i].pc = "done"
        /\ Len(frames[i].q.resps) = 6
        /\ frames[i].q.slept = 265
        /\ frames[i].result = <<"1000">>

\* C7: a resolution that succeeded made exactly one accessor call: the
\* matched candidate if that is "underlying" or "token", and
\* "UNDERLYING_ASSET_ADDRESS" if "upgradeToAndCall" matched; no resolution
\* ever calls "upgradeToAndCall" or makes a second call.
C7_OneAccessorInvoked ==
    \A i \in DOMAIN frames :
        LET f == frames[i]
        IN  /\ Len(f.invoked) <= 1
            /\ \A k \in DOMAIN f.invoked : f.invoked[k].fn # "upgradeToAndCall"
            /\ (f.pc = "done" /\ f.stage # "explorer") =>
                   /\ Len(f.invoked) = 1
                   /\ f.matched \in {"upgradeToAndCall", "underlying", "token"}
                   /\ f.invoked[1].fn =
                          IF f.matched = "upgradeToAndCall"
                          THEN "UNDERLYING_ASSET_ADDRESS" ELSE f.matched

\* one resolution through the proxy branch and one through "underlying"
C7_Witness ==
    \E i, j \in DOMAIN frames :
        /\ frames[i].pc = "done" /\ frames[i].matched = "upgradeToAndCall"
        /\ frames[i].invoked[1].fn = "UNDERLYING_ASSET_ADDRESS"
        /\ frames[j].pc = "done" /\ frames[j].matched = "underlying"

\* C8: a contract with none of the three candidates makes the resolution
\* fail with a ValueError naming the address once its handle is bound, after
\* all three candidates were looked up; no accessor is called and no value
\* is produced for it.
C8_NoCandidateFails ==
    \A i \in DOMAIN frames :
        LET f == frames[i]
            S == Capabilities(f.address)
        IN  (f.stage # "explorer" /\ f.address \in Addresses
             /\ S \cap {"upgradeToAndCall", "underlying", "token"} = {}) =>
                /\ f.invoked = <<>> /\ f.value = "" /\ f.pc # "done"
                /\ f.pc # "rpc"
                /\ f.c # NoHandle =>
                       /\ f.pc = "failed"
                       /\ f.error = [type |-> "ValueError",
                                     address |-> f.address]
                       /\ f.probed = <<"upgradeToAndCall", "underlying",
                                       "token">>
                /\ outcome.status # "returned"

\* the resolution of 0xEEE failed with the ValueError
C8_Witness ==
    \E i \in DOMAIN frames :
        /\ frames[i].address = "0xEEE" /\ frames[i].pc = "failed"
        /\ frames[i].error.type = "ValueError"
        /\ Len(frames[i].probed) = 3

C11_NeverGivesUp ==
    [][\A i \in DOMAIN frames :
          frames[i].stage = "explorer" =>
              /\ frames[i].pc = "sleep" =>
                     /\ frames'[i].pc \in {"sleep", "http"}
                     /\ frames'[i].q.resps = frames[i].q.resps
              /\ (frames[i].pc = "http" /\ frames'[i].pc = "failed") =>
                     frames'[i].error.type = "TransportError"
              /\ (frames[i].pc = "http" /\ frames'[i].pc = "done") =>
                     ~BeginsWithMarker(frames'[i].result)]_vars

\* the request is out again after seven rate-limited responses in a row
C11_Witness ==
    \E i \in DOMAIN frames :
        /\ frames[i].stage = "explorer" /\ frames[i].pc = "http"
        /\ Len(frames[i].q.resps) >= 7
        /\ \A k \in DOMAIN frames[i].q.resps :
               BeginsWithMarker(frames[i].q.resps[k])

\* C12: a failure of HTTP.get or of the accessor call is not retried: a
\* failed resolution never runs again, a resolution goes to sleep only on a
\* response that begins with the rate-limit marker, an accessor call in
\* flight is not issued a second time, and the exception that ends the
\* resolution is the one that was raised.
C12_NoRetryOnFailure ==
    [][\A i \in DOMAIN frames :
          /\ frames[i].pc = "failed" => frames'[i] = frames[i]
          /\ (frames[i].pc = "http" /\ frames'[i].pc = "sleep") =>
                 /\ Len(frames'[i].q.resps) = Len(frames[i].q.resps) + 1
                 /\ BeginsWithMarker(
                        frames'[i].q.resps[Len(frames'[i].q.resps)])
          /\ (frames[i].pc = "http" /\ frames'[i].pc = "failed") =>
                 frames'[i].error.type \in
                     {"TransportError", "ValueError", "ABIFunctionNotFound"}
          /\ frames[i].pc = "rpc" =>
                 /\ frames'[i].pc \in {"rpc", "done", "failed"}
                 /\ frames'[i].invoked = frames[i].invoked
                 /\ frames'[i].pc = "failed" =>
                        frames'[i].error.type = "RPCError"
          /\ (IsScalarCall /\ outcome.status = "pending"
              /\ outcome'.status = "raised") =>
                 outcome'.error = frames[i].error]_vars

\* one task ended by a transport error during the fetch of the proxy ABI,
\* the other by a failure of the accessor call
C12_Witness ==
    \E i, j \in DOMAIN frames :
        /\ frames[i].pc = "failed" /\ frames[i].error.type = "TransportError"
        /\ frames[i].stage = "proxy_abi"
        /\ frames[j].pc = "failed" /\ frames[j].error.type = "RPCError"
        /\ Len(frames[j].invoked) = 1

\* C13: in every state in which an explorer query or an accessor call has
\* been issued, both keys are set.
C13_KeysPresentBeforeQuery ==
    (\E i \in DOMAIN frames : frames[i].pc # "new") =>
        /\ env.ETHERSCAN_API_KEY # None
        /\ env.ALCHEMY_API_KEY # None

\* C14: the wait of an explorer call in progress is fixed by the number of
\* rate-limited responses that call itself has received: 0.2 for none, then
\* 0.3, 0.45, ...; rate-limited responses to another task or to an earlier
\* call of the same resolution do not enter.
C14_BackoffIsLocal ==
    \A i \in DOMAIN frames :
        LET f == frames[i]
            k == Len(f.q.resps)
        IN  (f.pc \in {"http", "sleep"} /\ k < 8) =>
                /\ \A n \in 1..k : BeginsWithMarker(f.q.resps[n])
                /\ f.pc = "http" => f.q.t_wait = CompoundedWaits[k + 1]
                /\ f.pc = "sleep" => k >= 1 /\ f.q.t_wait = CompoundedWaits[k]
                /\ f.q.slept = CompoundedSum(k)

\* one task has backed off to 0.3 s while its sibling, in its second
\* explorer call, waits 0.2 s
C14_Witness ==
    \E i, j \in DOMAIN frames :
        /\ frames[i].pc = "http" /\ Len(frames[i].q.resps) = 1
        /\ frames[i].q.t_wait = 30
        /\ frames[j].pc = "http" /\ frames[j].stage = "proxy_abi"
        /\ frames[j].q.resps = <<>> /\ frames[j].q.t_wait = 20

\* C15: contract() queries the explorer only when it is given no ABI, with
\* module=contract, action=getabi and its address: a resolution that went
\* through the proxy branch has fetched the ABI of its address once and the
\* ABI of the proxy reference address once, any other resolution one ABI.
C15_QueryIffNoAbi ==
    \A i \in DOMAIN frames :
        LET f == frames[i]
            own == [module |-> "contract", action |-> "getabi",
                    address |-> f.address]
            ref == [module |-> "contract", action |-> "getabi",
                    address |-> PROXY_ABI_ADDRESS]
        IN  (f.stage # "explorer" /\ f.pc # "new") =>
                /\ f.stage # "rebind"
                /\ f.queries = IF f.stage = "own" THEN <<own>>
                               ELSE <<own, ref>>

\* a task that is waiting for its backend
InFlight(f) == f.pc \in {"http", "sleep", "rpc"}

\* C16: there is no cancellation.  A step of a batch changes at most one
\* frame, and only a frame that had not terminated; the step in which a task
\* fails and the step in which the join raises leave every sibling as it was,
\* and once a task has failed a sibling in flight can still take its next step.
\* A step taken while a task has not terminated and none has failed leaves
\* the join pending.
C16_NoCancellation ==
    [][IsBatchCall =>
        /\ DOMAIN frames' = DOMAIN frames
        /\ \A i \in DOMAIN frames :
               frames'[i] # frames[i] =>
                   /\ ~Terminated(frames[i])
                   /\ outcome' = outcome
                   /\ \A j \in DOMAIN frames \ {i} : frames'[j] = frames[j]
        /\ outcome' # outcome => frames' = frames
        /\ FailedInOrder # <<>> =>
               \A i \in DOMAIN frames :
                   InFlight(frames[i]) =>
                       ENABLED (Wake(i) \/ TransportFail(i) \/ RpcReturn(i))
        /\ ((\E i \in DOMAIN frames : ~Terminated(frames[i]))
                /\ FailedInOrder = <<>>) => outcome'.status = "pending"]_vars

C16_Witness ==
    /\ IsBatchCall
    /\ outcome.status = "raised"
    /\ \E i, j \in DOMAIN frames :
           /\ frames[i].pc = "failed"
           /\ frames[j].pc = "done"
           /\ finished = <<i, j>>

CountKind(events, kind) ==
    Cardinality({n \in DOMAIN events : events[n].kind = kind})

\* C18: a query that got k rate-limited responses before its result has sent
\* k+1 requests and slept k times, in the order request, sleep, request, ...,
\* request: the first and the last event are requests, no two requests and no
\* two sleeps are adjacent, and every request carries the caller's parameters
\* and the explorer key.  While the query runs the same holds of what it has
\* done so far.
C18_RequestsAndSleepsAlternate ==
    \A i \in DOMAIN frames :
        LET f == frames[i]
            ev == f.q.events
            k == Cardinality({n \in DOMAIN f.q.resps :
                                 BeginsWithMarker(f.q.resps[n])})
            over == f.stage = "explorer" /\ f.pc = "done"
        IN  (over \/ f.pc \in {"http", "sleep"}) =>
                /\ CountKind(ev, "sleep") = k
                /\ CountKind(ev, "request") =
                       IF f.pc = "sleep" THEN k ELSE k + 1
                /\ \A n \in DOMAIN ev :
                       ev[n].kind = IF n % 2 = 1 THEN "request" ELSE "sleep"
                /\ \A n \in DOMAIN ev :
                       ev[n].kind = "request" =>
                           /\ ev[n].params = ev[1].params
                           /\ ev[n].params.apikey = ETHERSCAN_API_KEY
                           /\ ev[n].params.address = f.queries[Len(f.queries)].address
                           /\ ev[n].params.action = f.queries[Len(f.queries)].action
                           /\ ev[n].params.module = f.queries[Len(f.queries)].module
                /\ over => (Len(f.q.resps) = k + 1 /\ Len(ev) = 2 * k + 1)

\* a query that returned after three rate-limited responses
C18_Witness ==
    \E i \in DOMAIN frames :
        /\ frames[i].stage = "explorer" /\ frames[i].pc = "done"
        /\ Len(frames[i].q.resps) = 4
        /\ Len(frames[i].q.events) = 7

\* C19: bonding_curve returns a map whose keys are exactly (0, 1) for a
\* metapool and exactly the pairs (i, j), 0 <= i < j < n, for another
\* supported pool of n coins, each key with a list of `resolution` points;
\* for a pool that is neither a Stableswap nor a Cryptoswap pool it raises
\* TypeError and returns no curve.
C19_CurvesOrTypeError ==
    LET pool == bc.pool
        supported == IsInstance(pool, STABLESWAP \cup CRYPTOSWAP)
    IN  /\ (bc.status = "returned" /\ supported) =>
               /\ DOMAIN bc.curves =
                      IF IsInstance(pool, {"CurveMetaPool"}) THEN {<<0, 1>>}
                      ELSE {<<i, j>> : i, j \in 0..(pool.n - 1)} \cap
                           {pair \in (0..MaxCoins) \X (0..MaxCoins) :
                               pair[1] < pair[2]}
               /\ \A pair \in DOMAIN bc.curves :
                      Len(bc.curves[pair]) = bc.resolution
        /\ (bc.status # "none" /\ ~supported) =>
               /\ bc.status = "raised"
               /\ bc.error = "TypeError"
               /\ bc.curves = NoCurves

===========================================================================
